---------------------------- MODULE Spec2Model ----------------------------
(***************************************************************************)
(* graph-builder-service: the session cache (SessionManager), the tabular  *)
(* to graph projection (create_graph_api) and the bulk graph writer        *)
(* (Neo4jGraphCreation.create_graph_data).                                 *)
(*                                                                         *)
(* Python values are modelled as follows.  A str is a sequence of tokens   *)
(* (<<"John">>), so that cell values and digests are of one kind.  A dict  *)
(* whose insertion order is never read is a function (its DOMAIN is the    *)
(* key set); a dict whose insertion order is read (sorted(props.items()))  *)
(* is a sequence of <<key, value>> pairs.  None is the record None.        *)
(***************************************************************************)
EXTENDS Integers, Sequences, FiniteSets, TLC

VARIABLES
    now,          \* time.time(), in units of half a session timeout
    sessions,     \* SessionManager._sessions, one dict per manager instance
    cache_dir,    \* the files session_<id>.pkl of the cache directory
    ret,          \* what the last SessionManager call returned or raised
    live,         \* history: the session each id was last created with
    deleted,      \* history: the <<manager, id, whether it was held>> deleted
                  \* and not created since
    proj,         \* the last call of the projection and what it returned
    store,        \* the graph store: its nodes and its relationships
    w,            \* the call of create_graph_data in progress, or the last one
    up,           \* the ingestion endpoints: their SessionManager and requests
    drv,          \* the Neo4jDriverSingleton and the coroutines that call it
    req           \* the graph_builder endpoints: their SessionManager, the
                  \* drivers their requests opened and closed, the requests

sessionVars == <<now, sessions, cache_dir, ret, live, deleted>>

projVars == <<proj>>

writeVars == <<store, w>>

uploadVars == <<up>>

driverVars == <<drv>>

requestVars == <<req>>

vars == <<now, sessions, cache_dir, ret, live, deleted, proj, store, w, up, drv,
          req>>

\* What the SessionManager's operations leave alone.
notSession == <<projVars, writeVars, uploadVars, driverVars, requestVars>>

\* What the projection leaves alone.
notProj == <<sessionVars, writeVars, uploadVars, driverVars, requestVars>>

\* What the writer leaves alone.
notWrite == <<sessionVars, projVars, uploadVars, driverVars, requestVars>>

\* What the ingestion endpoints leave alone.
notUpload == <<sessionVars, projVars, writeVars, driverVars, requestVars>>

\* What the driver singleton leaves alone.
notDriver == <<sessionVars, projVars, writeVars, uploadVars, requestVars>>

\* What the graph_builder endpoints leave alone, but for the graph store.
notRequest == <<sessionVars, projVars, w, uploadVars, driverVars>>

\* ------------------------------------------------------------------ bounds

MaxTime == 3

\* session_timeout (3600 s by default) in clock units: one unit is 1800 s
SessionTimeout == 2

None == [none |-> TRUE]

Min(a, b) == IF a < b THEN a ELSE b

\* ------------------------------------------------------------- dict helpers

EmptyDict == [k \in {} |-> None]

DictPut(d, k, v) == [x \in DOMAIN d \cup {k} |-> IF x = k THEN v ELSE d[x]]

DictPop(d, k) == [x \in DOMAIN d \ {k} |-> d[x]]

\* --------------------------------------------------------------- the tables

Row(id, name, city) == [id |-> <<id>>, name |-> <<name>>, city |-> <<city>>]

people ==
    [table_name |-> "people",
     columns |-> <<"id", "name", "city">>,
     rows |-> <<Row("1", "John", "NYC"), Row("2", "Jane", "LA"),
                Row("1", "John", "NYC")>>]

staff ==
    [table_name |-> "staff",
     columns |-> <<"id", "name">>,
     rows |-> <<[id |-> <<"1">>, name |-> <<"John">>],
                [id |-> <<"3">>, name |-> <<"Bob">>]>>]

offices ==
    [table_name |-> "offices",
     columns |-> <<"id", "city">>,
     rows |-> <<[id |-> <<"1">>, city |-> <<"NYC">>],
                [id |-> <<"4">>, city |-> <<"LA">>]>>]

SessionIds == {"s1", "s2"}

Managers == {"m1", "m2"}

\* What the two ingestion endpoints pass to create_session: an upload
\* (source_type "file") or a database load (source_type "database"), each
\* with its data_dico (Dict[str, DataFrame]) in insertion order.
Ingested ==
    {[dataframes |-> <<people>>, source_type |-> "file"],
     [dataframes |-> <<staff, offices>>, source_type |-> "database"]}

\* ------------------------------------------------------------------ pickle

\* pickle.dump writes a header and then the payload; a dump that fails
\* part-way leaves the header alone in the file opened with 'wb'.
pickle_dump(session_data) == <<"pkl", session_data>>

truncated_file == <<"pkl">>

pickle_readable(bytes) == Len(bytes) = 2

pickle_load(bytes) == bytes[2]

\* ---------------------------------------------------------- SessionManager

\* The per-table metadata the endpoints derive from the dataframes.
table_data_of(dataframes) ==
    [i \in 1..Len(dataframes) |->
        [table_name |-> dataframes[i].table_name,
         columns |-> dataframes[i].columns,
         total_rows |-> Len(dataframes[i].rows),
         total_columns |-> Len(dataframes[i].columns)]]

RECURSIVE SumRows(_)
SumRows(dataframes) ==
    IF dataframes = <<>> THEN 0
    ELSE Len(Head(dataframes).rows) + SumRows(Tail(dataframes))

new_session_data(session_id, dataframes, source_type, t) ==
    [session_id |-> session_id,
     created_at |-> t,
     source_type |-> source_type,
     table_data |-> table_data_of(dataframes),
     dataframe_count |-> Len(dataframes),
     total_rows |-> SumRows(dataframes),
     dataframes |-> dataframes]

\* The state one manager works on: its _sessions and the cache directory.
St(mem, files) == [sessions |-> mem, files |-> files]

With(st, value) == [sessions |-> st.sessions, files |-> st.files, value |-> value]

\* line 97 and line 155
session_valid(session_data, t) == t - session_data.created_at <= SessionTimeout

session_expired_at_timeout(session_data, t) ==
    t - session_data.created_at >= SessionTimeout

\* line 46, line 182 and line 193
session_expired(session_data, t) == t - session_data.created_at > SessionTimeout

delete_session_from_memory(st, session_id) ==
    [sessions |-> DictPop(st.sessions, session_id),
     files |-> st.files,
     value |-> TRUE]

\* pop from memory, unlink the file if it exists (taken to succeed), True
delete_session(st, session_id) ==
    [sessions |-> DictPop(st.sessions, session_id),
     files |-> DictPop(st.files, session_id),
     value |-> TRUE]

load_session_metadata(st, session_id, t) ==
    IF session_id \notin DOMAIN st.files THEN With(st, None)
    ELSE IF ~pickle_readable(st.files[session_id]) THEN With(st, None)
    ELSE LET session_data == pickle_load(st.files[session_id]) IN
         IF session_expired(session_data, t)
         THEN With(delete_session(st, session_id), None)
         ELSE With(st, session_data)

\* io: "ok", "open_fails" (the file is not touched) or "dump_fails" (the
\* file was opened with 'wb', hence truncated, and the dump broke off).
save_session_metadata(st, session_id, session_data, io) ==
    CASE io = "ok" ->
            [sessions |-> st.sessions,
             files |-> DictPut(st.files, session_id, pickle_dump(session_data)),
             value |-> None, raised |-> FALSE]
      [] io = "open_fails" ->
            [sessions |-> st.sessions, files |-> st.files,
             value |-> None, raised |-> TRUE]
      [] io = "dump_fails" ->
            [sessions |-> st.sessions,
             files |-> DictPut(st.files, session_id, truncated_file),
             value |-> None, raised |-> TRUE]

create_session_unsaved(st, session_id, dataframes, source_type, t, io) ==
    [sessions |-> DictPut(st.sessions, session_id,
                          new_session_data(session_id, dataframes, source_type, t)),
     files |-> st.files,
     value |-> IF io = "ok" THEN session_id ELSE None,
     raised |-> io # "ok"]

create_session(st, session_id, dataframes, source_type, t, io) ==
    LET session_data == new_session_data(session_id, dataframes, source_type, t)
        saved == save_session_metadata(st, session_id, session_data, io)
    IN  IF saved.raised
        THEN [sessions |-> saved.sessions, files |-> saved.files,
              value |-> None, raised |-> TRUE]
        ELSE [sessions |-> DictPut(saved.sessions, session_id, session_data),
              files |-> saved.files,
              value |-> session_id, raised |-> FALSE]

get_session(st, session_id, t) ==
    LET cached == /\ session_id \in DOMAIN st.sessions
                  /\ session_valid(st.sessions[session_id], t)
        evicted == St(DictPop(st.sessions, session_id), st.files)
        loaded == load_session_metadata(evicted, session_id, t)
    IN  IF cached
        THEN [sessions |-> st.sessions, files |-> st.files,
              value |-> st.sessions[session_id], found |-> TRUE]
        ELSE IF loaded.value # None
             THEN [sessions |-> DictPut(loaded.sessions, session_id, loaded.value),
                   files |-> loaded.files,
                   value |-> loaded.value, found |-> TRUE]
             ELSE [sessions |-> loaded.sessions, files |-> loaded.files,
                   value |-> None, found |-> FALSE]

get_dataframes(st, session_id, t) ==
    LET got == get_session(st, session_id, t)
    IN  [got EXCEPT !.value = IF got.found THEN got.value.dataframes ELSE None]

\* session.copy() without the 'dataframes' key
session_info(session_data) ==
    [k \in DOMAIN session_data \ {"dataframes"} |-> session_data[k]]

get_session_info_in_place(st, session_id, t) ==
    LET got == get_session(st, session_id, t)
    IN  IF got.found
        THEN [got EXCEPT !.value = session_info(got.value),
                         !.sessions = DictPut(@, session_id,
                                              session_info(got.value))]
        ELSE [got EXCEPT !.value = None]

get_session_info(st, session_id, t) ==
    LET got == get_session(st, session_id, t)
    IN  [got EXCEPT !.value = IF got.found THEN session_info(got.value) ELSE None]

\* The first loop of list_sessions, over a snapshot ids of the in-memory
\* keys: current_time was read at t1, get_session_info reads the clock at t2.
RECURSIVE list_memory(_, _, _, _, _)
list_memory(st, active, ids, t1, t2) ==
    IF ids = {} THEN [sessions |-> st.sessions, files |-> st.files, value |-> active]
    ELSE LET session_id == CHOOSE x \in ids : TRUE
             info == get_session_info(st, session_id, t2)
         IN  IF session_valid(st.sessions[session_id], t1)
             THEN list_memory(info, DictPut(active, session_id, info.value),
                              ids \ {session_id}, t1, t2)
             ELSE list_memory(St(DictPop(st.sessions, session_id), st.files),
                              active, ids \ {session_id}, t1, t2)

\* The second loop of list_sessions, over the session_*.pkl files.
RECURSIVE list_disk(_, _, _, _)
list_disk(st, active, ids, t2) ==
    IF ids = {} THEN [sessions |-> st.sessions, files |-> st.files, value |-> active]
    ELSE LET session_id == CHOOSE x \in ids : TRUE
             info == get_session_info(st, session_id, t2)
         IN  IF session_id \in DOMAIN active
             THEN list_disk(st, active, ids \ {session_id}, t2)
             ELSE list_disk(info,
                            IF info.value # None
                            THEN DictPut(active, session_id, info.value)
                            ELSE active,
                            ids \ {session_id}, t2)

list_sessions(st, t1, t2) ==
    LET mem == list_memory(st, EmptyDict, DOMAIN st.sessions, t1, t2)
    IN  list_disk(mem, mem.value, DOMAIN mem.files, t2)

\* cleanup_expired_sessions: the memory loop, then the disk loop.
cleanup_memory(st, t) ==
    LET gone == {id \in DOMAIN st.sessions : session_expired(st.sessions[id], t)}
    IN  [sessions |-> [id \in DOMAIN st.sessions \ gone |-> st.sessions[id]],
         files |-> st.files,
         value |-> Cardinality(gone)]

cleanup_disk_unreadable_only(st, removed_count, t) ==
    LET gone == {id \in DOMAIN st.files : ~pickle_readable(st.files[id])}
    IN  [sessions |-> st.sessions,
         files |-> [id \in DOMAIN st.files \ gone |-> st.files[id]],
         value |-> removed_count + Cardinality(gone)]

cleanup_disk(st, removed_count, t) ==
    LET gone == {id \in DOMAIN st.files :
                    \/ ~pickle_readable(st.files[id])
                    \/ session_expired(pickle_load(st.files[id]), t)}
    IN  [sessions |-> st.sessions,
         files |-> [id \in DOMAIN st.files \ gone |-> st.files[id]],
         value |-> removed_count + Cardinality(gone)]

cleanup_expired_sessions(st, t) ==
    LET mem == cleanup_memory(st, t)
    IN  cleanup_disk(mem, mem.value, t)

\* ------------------------------------------------------------ the actions

Manager(m) == St(sessions[m], cache_dir)

Commit(m, out) ==
    /\ sessions' = [sessions EXCEPT ![m] = out.sessions]
    /\ cache_dir' = out.files

Tick ==
    /\ now < MaxTime
    /\ now' = now + 1
    /\ UNCHANGED <<sessions, cache_dir, ret, live, deleted, notSession>>

\* A process restart: a fresh SessionManager on the same cache directory.
Restart(m) ==
    /\ sessions[m] # EmptyDict
    /\ sessions' = [sessions EXCEPT ![m] = EmptyDict]
    /\ ret' = [op |-> "restart", m |-> m]
    /\ UNCHANGED <<now, cache_dir, live, deleted, notSession>>

CreateSession(m) ==
    \E session_id \in SessionIds, input \in Ingested,
       io \in {"ok", "open_fails", "dump_fails"} :
        LET out == create_session(Manager(m), session_id, input.dataframes,
                                  input.source_type, now, io)
        IN  /\ Commit(m, out)
            /\ ret' = [op |-> "create_session", m |-> m, id |-> session_id,
                       t |-> now, value |-> out.value, raised |-> out.raised,
                       before |-> Manager(m)]
            /\ live' = IF ~out.raised
                       THEN DictPut(live, session_id,
                                    [created_at |-> now,
                                     dataframes |-> input.dataframes,
                                     source_type |-> input.source_type])
                       ELSE IF io = "dump_fails" THEN DictPop(live, session_id)
                       ELSE live
            /\ deleted' = {d \in deleted : d[2] # session_id}
            /\ UNCHANGED <<now, notSession>>

Access(m, op, session_id, out) ==
    /\ Commit(m, out)
    /\ ret' = [op |-> op, m |-> m, id |-> session_id, t |-> now,
               cached |-> session_id \in DOMAIN sessions[m],
               value |-> out.value, found |-> out.found]
    /\ UNCHANGED <<now, live, deleted, notSession>>

GetSession(m) ==
    \E session_id \in SessionIds :
        Access(m, "get_session", session_id,
               get_session(Manager(m), session_id, now))

GetDataframes(m) ==
    \E session_id \in SessionIds :
        Access(m, "get_dataframes", session_id,
               get_dataframes(Manager(m), session_id, now))

GetSessionInfo(m) ==
    \E session_id \in SessionIds :
        Access(m, "get_session_info", session_id,
               get_session_info(Manager(m), session_id, now))

DeleteSession(m) ==
    \E session_id \in SessionIds :
        LET out == delete_session(Manager(m), session_id)
        IN  /\ Commit(m, out)
            /\ ret' = [op |-> "delete_session", m |-> m, id |-> session_id,
                       t |-> now, value |-> out.value,
                       before |-> Manager(m)]
            /\ live' = DictPop(live, session_id)
            /\ deleted' =
                IF out.value
                THEN {d \in deleted : <<d[1], d[2]>> # <<m, session_id>>}
                        \cup {<<m, session_id,
                                 \/ session_id \in DOMAIN sessions[m]
                                 \/ session_id \in DOMAIN cache_dir>>}
                ELSE deleted
            /\ UNCHANGED <<now, notSession>>

\* The clock may advance between the read of current_time and the calls of
\* get_session_info made by the two loops.
ListSessions(m) ==
    \E t2 \in now..Min(now + 1, MaxTime) :
        LET out == list_sessions(Manager(m), now, t2)
        IN  /\ Commit(m, out)
            /\ ret' = [op |-> "list_sessions", m |-> m, t |-> now, t2 |-> t2,
                       cached |-> DOMAIN sessions[m], value |-> out.value,
                       before |-> Manager(m)]
            /\ now' = t2
            /\ UNCHANGED <<live, deleted, notSession>>

CleanupExpiredSessions(m) ==
    LET out == cleanup_expired_sessions(Manager(m), now)
    IN  /\ Commit(m, out)
        /\ ret' = [op |-> "cleanup_expired_sessions", m |-> m, t |-> now,
                   value |-> out.value, before |-> Manager(m)]
        /\ UNCHANGED <<now, live, deleted, notSession>>

SessionInit ==
    /\ now = 0
    /\ sessions = [m \in Managers |-> EmptyDict]
    /\ cache_dir = EmptyDict
    /\ ret = [op |-> "init"]
    /\ live = EmptyDict
    /\ deleted = {}

SessionNext(m) ==
    \/ DeleteSession(m)
    \/ CreateSession(m)
    \/ GetSession(m)
    \/ GetDataframes(m)
    \/ GetSessionInfo(m)
    \/ ListSessions(m)
    \/ CleanupExpiredSessions(m)
    \/ Restart(m)

\* ------------------------------------------------------ raising and returning

Return(value) == [raised |-> FALSE, value |-> value]

Raise(type, message) ==
    [raised |-> TRUE, error |-> [type |-> type, message |-> message]]

Range(s) == {s[i] : i \in DOMAIN s}

\* ------------------------------------------ dicts that keep insertion order

dict_has(items, k) == \E i \in DOMAIN items : items[i][1] = k

dict_get(items, k) == items[CHOOSE i \in DOMAIN items : items[i][1] = k][2]

\* items[k] = v: an existing key keeps its place, a new key goes last
dict_set(items, k, v) ==
    IF dict_has(items, k)
    THEN [i \in DOMAIN items |-> IF items[i][1] = k THEN <<k, v>> ELSE items[i]]
    ELSE Append(items, <<k, v>>)

\* The order of Python's str on the keys that occur.
KeyOrder == <<"city", "id", "name", "zip">>

KeyRank(k) == CHOOSE i \in DOMAIN KeyOrder : KeyOrder[i] = k

RECURSIVE insert_sorted(_, _)
insert_sorted(item, s) ==
    IF s = <<>> THEN <<item>>
    ELSE IF KeyRank(item[1]) <= KeyRank(Head(s)[1]) THEN <<item>> \o s
    ELSE <<Head(s)>> \o insert_sorted(item, Tail(s))

\* sorted(props.items()): the keys of a dict are distinct, so the order of
\* the (key, value) tuples is the order of the keys.
sorted_no_sort(items) == items

RECURSIVE sorted(_)
sorted(items) ==
    IF items = <<>> THEN <<>>
    ELSE insert_sorted(Head(items), sorted(Tail(items)))

\* ------------------------------------------------------------- data_manip.py

check_cols_exist_in_db(data, cols) ==
    LET exists == SelectSeq(cols, LAMBDA col : col \in Range(data.columns))
    IN  IF exists # <<>> THEN Return(exists)
        ELSE Raise("ValueError",
                   <<"Your columns does not exist in the data columns">>)

\* ------------------------------------------------------------- graph_api.py

\* data[graph_props].to_dict(orient="records")
to_dict_records(data, graph_props) ==
    [i \in DOMAIN data.rows |->
        [j \in DOMAIN graph_props |-> <<graph_props[j], data.rows[i][graph_props[j]]>>]]

RECURSIVE str_of_items(_)
str_of_items(items) ==
    IF items = <<>> THEN <<>>
    ELSE <<Head(items)[1]>> \o Head(items)[2] \o str_of_items(Tail(items))

\* f"{label}:{sorted(props.items())}"
raw_key(label, props) == <<label, ":">> \o str_of_items(sorted(props))

\* hashlib.sha1(...).hexdigest(), taken to be free of collisions
sha1_hexdigest(text) == <<"sha1">> \o text

graph_element_props(data, label, props) ==
    LET checked == check_cols_exist_in_db(data, props)
        graph_props_list == to_dict_records(data, checked.value)
    IN  IF checked.raised THEN Raise("ValueError", checked.error.message)
        ELSE Return([i \in DOMAIN graph_props_list |->
                [label |-> label,
                 properties |->
                    dict_set(graph_props_list[i], "id",
                             sha1_hexdigest(raw_key(label, graph_props_list[i])))]])

Min3(a, b, c) == Min(a, Min(b, c))

source_to_target_rels(data, graph_config) ==
    LET source_props_list ==
            graph_element_props(data, graph_config.source.label,
                                graph_config.source.properties)
        target_props_list ==
            graph_element_props(data, graph_config.target.label,
                                graph_config.target.properties)
        rels_props_list ==
            graph_element_props(data, graph_config.rels.label,
                                graph_config.rels.properties)
    IN  IF source_props_list.raised THEN source_props_list
        ELSE IF target_props_list.raised THEN target_props_list
        ELSE IF rels_props_list.raised THEN rels_props_list
        ELSE Return([i \in 1..Min3(Len(source_props_list.value),
                                   Len(target_props_list.value),
                                   Len(rels_props_list.value)) |->
                [source |-> source_props_list.value[i],
                 target |-> target_props_list.value[i],
                 rels |-> rels_props_list.value[i]]])

\* ---------------------------------------------------------- neo4j/ingest.py

\* df[exist_cols]
narrowed(df, cols) ==
    [table_name |-> df.table_name,
     columns |-> cols,
     rows |-> [i \in DOMAIN df.rows |-> [c \in Range(cols) |-> df.rows[i][c]]]]

RECURSIVE find_data_frame_from(_, _, _)
find_data_frame_from(data_dico, props, i) ==
    IF i > Len(data_dico)
    THEN Raise("ValueError",
               <<"No dataframe found containing all required properties:">>
                   \o props)
    ELSE LET checked == check_cols_exist_in_db(data_dico[i], props)
         IN  IF checked.raised THEN find_data_frame_from(data_dico, props, i + 1)
             ELSE Return([df_name |-> data_dico[i].table_name,
                          df |-> narrowed(data_dico[i], checked.value)])

find_data_frame(data_dico, props) == find_data_frame_from(data_dico, props, 1)

\* The three lookups, then source_df.join(target_df, on=[...], how="right"):
\* pandas matches the columns of on against the index of target_df and
\* raises a ValueError, for no shared column (no key for the one index
\* level) as for a shared one (it is in both frames and no suffix is given).
create_data_frame_from_props_block(data_dico, props_block) ==
    LET source_df == find_data_frame(data_dico, props_block.source.properties)
        target_df == find_data_frame(data_dico, props_block.target.properties)
        rels_df == find_data_frame(data_dico, props_block.rels.properties)
    IN  IF source_df.raised THEN source_df
        ELSE IF target_df.raised THEN target_df
        ELSE IF rels_df.raised THEN rels_df
        ELSE Raise("ValueError", <<"pandas.DataFrame.join">>)

\* ------------------------------------------------- graph_api.create_graph_api

RECURSIVE project_rules(_, _, _, _)
project_rules(graph_config_list, data_dico, joined, full_graph_elements) ==
    IF graph_config_list = <<>> THEN Return(full_graph_elements)
    ELSE LET graph_config_bloc == Head(graph_config_list)
             data == IF joined
                     THEN create_data_frame_from_props_block(data_dico,
                                                             graph_config_bloc)
                     ELSE Return(data_dico[1])
             source_to_target_rel ==
                 source_to_target_rels(data.value, graph_config_bloc)
         IN  IF data.raised THEN data
             ELSE IF source_to_target_rel.raised THEN source_to_target_rel
             ELSE project_rules(Tail(graph_config_list), data_dico, joined,
                                full_graph_elements \o source_to_target_rel.value)

create_graph_api(graph_config_list, data_dico) ==
    IF Len(data_dico) > 1
    THEN project_rules(graph_config_list, data_dico, TRUE, <<>>)
    ELSE IF data_dico = <<>>
         THEN Raise("IndexError", <<"list index out of range">>)
         ELSE project_rules(graph_config_list, data_dico, FALSE, <<>>)

\* ------------------------------------------------- the projection's inputs

MaxRules == 2

Parts == {"source", "target", "rels"}

GraphElement(label, properties) == [label |-> label, properties |-> properties]

\* "zip" is a column of no table.
SourceElements ==
    {GraphElement("Person", p) :
        p \in {<<"id", "name">>, <<"name", "id">>, <<"name", "zip">>, <<"zip">>,
               <<"name">>}}

TargetElements == {GraphElement("City", <<"city">>)}

RelsElements ==
    {GraphElement("LIVES_IN", p) : p \in {<<"id">>, <<>>, <<"zip">>}}

GraphConfigs == [source : SourceElements, target : TargetElements, rels : RelsElements]

GraphConfigLists == UNION {[1..n -> GraphConfigs] : n \in 0..MaxRules}

DataDicos ==
    {<<people>>, <<staff>>, <<staff, offices>>, <<offices, people>>,
     <<people, staff>>, <<>>}

RequiredColumns ==
    {<<"id", "city">>, <<"city", "id">>, <<"name">>, <<"id", "zip">>, <<"zip">>, <<>>}

CreateGraphApi ==
    /\ proj.op = "init"
    /\ \E graph_config_list \in GraphConfigLists, data_dico \in DataDicos :
          proj' = [op |-> "create_graph_api",
                   graph_config_list |-> graph_config_list,
                   data_dico |-> data_dico,
                   out |-> create_graph_api(graph_config_list, data_dico)]
    /\ UNCHANGED notProj

FindDataFrame ==
    /\ proj.op = "init"
    /\ \E data_dico \in DataDicos, props \in RequiredColumns :
          proj' = [op |-> "find_data_frame",
                   data_dico |-> data_dico,
                   props |-> props,
                   out |-> find_data_frame(data_dico, props)]
    /\ UNCHANGED notProj

ProjInit == proj = [op |-> "init"]

\* ------------------------------------------------------------ exceptions.py

\* GraphBuilderException.__init__: details or {}
GraphCreationError(message, details) ==
    [type |-> "GraphCreationError", message |-> message,
     status_code |-> 500, details |-> details]

\* str(e) of an exception built with super().__init__(self.message)
str(e) == e.message

Digits == <<"0", "1", "2", "3", "4", "5", "6", "7", "8", "9">>

\* f"{batch_idx}"
RECURSIVE str_int(_)
str_int(k) ==
    IF k < 10 THEN <<Digits[k + 1]>>
    ELSE str_int(k \div 10) \o <<Digits[(k % 10) + 1]>>

\* ---------------------------------------------------------- the graph store

EmptyStore == [nodes |-> <<>>, rels |-> <<>>]

\* A properties dict as the store's property map.
props_map(items) ==
    [k \in {items[i][1] : i \in DOMAIN items} |-> dict_get(items, k)]

node_matches(node, label, props) ==
    /\ node.label = label
    /\ \A k \in DOMAIN props : k \in DOMAIN node.props /\ node.props[k] = props[k]

merge_node_create(graph, label, props) ==
    [graph |-> [graph EXCEPT !.nodes = Append(@, [label |-> label, props |-> props])],
     node |-> Len(graph.nodes) + 1]

\* apoc.merge.node([label], props): the node with the label and all of
\* props, created when there is none.  (Were there several, the procedure
\* would yield each; the merge itself keeps the store from holding two.)
merge_node(graph, label, props) ==
    LET found == {i \in DOMAIN graph.nodes :
                    node_matches(graph.nodes[i], label, props)}
    IN  IF found # {}
        THEN [graph |-> graph,
              node |-> CHOOSE i \in found : \A j \in found : i <= j]
        ELSE [graph |-> [graph EXCEPT !.nodes =
                            Append(@, [label |-> label, props |-> props])],
              node |-> Len(graph.nodes) + 1]

\* apoc.merge.relationship(source, type, {}, rel_props, target, {}): the
\* identifying properties are empty, rel_props are set on creation only and
\* nothing is set on a match.
merge_relationship(graph, source, type, rel_props, target) ==
    IF \E i \in DOMAIN graph.rels :
            /\ graph.rels[i].source = source
            /\ graph.rels[i].type = type
            /\ graph.rels[i].target = target
    THEN graph
    ELSE [graph EXCEPT !.rels =
            Append(@, [source |-> source, type |-> type,
                       props |-> rel_props, target |-> target])]

\* One row of UNWIND $configs AS cfg.
merge_config(graph, cfg) ==
    LET source == merge_node(graph, cfg.source.label,
                             props_map(cfg.source.properties))
        target == merge_node(source.graph, cfg.target.label,
                             props_map(cfg.target.properties))
    IN  merge_relationship(target.graph, source.node, cfg.rels.label,
                           props_map(cfg.rels.properties), target.node)

\* The query of _create_batch, run as one auto-commit transaction.
RECURSIVE create_batch(_, _)
create_batch(graph, batch) ==
    IF batch = <<>> THEN graph
    ELSE create_batch(merge_config(graph, Head(batch)), Tail(batch))

\* --------------------------------------- Neo4jGraphCreation.create_graph_data

MaxBatchSize == 2

\* self.batch_size (1000 by default), in the unit of the batch sizes passed
DefaultBatchSize == 2

slice_short(list, lo, hi) == SubSeq(list, lo + 1, Min(hi, Len(list)) - 1)

\* list[lo:hi]
slice(list, lo, hi) == SubSeq(list, lo + 1, Min(hi, Len(list)))

\* [graph_config_list[i:i + batch_size] for i in range(0, total_configs, batch_size)]
RECURSIVE batches_from(_, _, _)
batches_from(graph_config_list, i, batch_size) ==
    IF i >= Len(graph_config_list) THEN <<>>
    ELSE <<slice(graph_config_list, i, i + batch_size)>>
            \o batches_from(graph_config_list, i + batch_size, batch_size)

\* batch_size or self.batch_size (no batch size is passed as 0)
batch_size_or_default(batch_size) ==
    IF batch_size # 0 THEN batch_size ELSE DefaultBatchSize

Idle ==
    [pc |-> "idle", again |-> FALSE, graph_config_list |-> <<>>, batch_size |-> 0,
     batches |-> <<>>, batch_idx |-> 0, issued |-> <<>>, committed |-> 0,
     result |-> None, error |-> None,
     rejected |-> 0, store_error |-> <<>>, store0 |-> EmptyStore,
     written0 |-> {}, written |-> {}]

\* The call up to the loop.  The fields rejected, store_error, store0,
\* written0 and written are history: the first batch the store rejected
\* and with what, the store and the edges committed to it when the call
\* began, and the edges committed to it by now.
create_graph_data(call, graph, graph_config_list, batch_size) ==
    LET total_configs == Len(graph_config_list)
        fresh == [Idle EXCEPT !.graph_config_list = graph_config_list,
                              !.store0 = graph,
                              !.written0 = call.written,
                              !.written = call.written]
    IN  IF total_configs = 0
        THEN [fresh EXCEPT !.pc = "failed",
                !.error = GraphCreationError(<<"Empty graph configuration list">>,
                                             EmptyDict)]
        ELSE [fresh EXCEPT !.pc = "loop",
                !.batch_size = batch_size_or_default(batch_size),
                !.batches = batches_from(graph_config_list, 0,
                                         batch_size_or_default(batch_size))]

on_batch_error_continue(call, e) == [call EXCEPT !.pc = "loop"]

\* except Exception as e (line 184), and the except Exception of the outer
\* try (line 203), which catches what the inner one raises.
on_batch_error(call, e) ==
    LET batch == call.batches[call.batch_idx]
        inner == GraphCreationError(
                    <<"Failed to process batch">> \o str_int(call.batch_idx),
                    [error |-> e, batch_size |-> Len(batch)])
    IN  [call EXCEPT !.pc = "failed",
            !.error = GraphCreationError(
                        <<"Failed to create graph">>,
                        [error |-> str(inner),
                         configs |-> Len(call.graph_config_list)])]

\* ------------------------------------------------------ the writer's inputs

MaxEdges == 3

\* Two rules over people that differ in the relationship's columns: rows 1
\* and 3 give the same edge, and the two rules give edges between the same
\* nodes with different relationship properties.
WrittenRules ==
    <<[source |-> GraphElement("Person", <<"id", "name">>),
       target |-> GraphElement("City", <<"city">>),
       rels |-> GraphElement("LIVES_IN", <<"id">>)],
      [source |-> GraphElement("Person", <<"id", "name">>),
       target |-> GraphElement("City", <<"city">>),
       rels |-> GraphElement("LIVES_IN", <<"name">>)]>>

\* graph_api[:limit]: the edges of the first rule and one of the second
limit == Len(people.rows) + 1

ProjectedEdges ==
    Range(slice(create_graph_api(WrittenRules, <<people>>).value, 0, limit))

EdgeLists == UNION {[1..n -> ProjectedEdges] : n \in 0..MaxEdges}

\* str(e) of what session.run or result.consume raise
StoreErrors == {<<"ServiceUnavailable">>, <<"TransientError">>}

\* ------------------------------------------------------ the writer's actions

\* The first call, on the empty store.
CreateGraphData ==
    /\ w.pc = "idle"
    /\ \E graph_config_list \in EdgeLists, batch_size \in 0..MaxBatchSize :
          w' = create_graph_data(w, store, graph_config_list, batch_size)
    /\ UNCHANGED <<store, notWrite>>

\* A second call, on the store as the first call left it.
CreateGraphDataAgain ==
    /\ w.pc \in {"done", "failed", "cancelled"}
    /\ ~w.again
    /\ \E graph_config_list \in EdgeLists, batch_size \in 0..MaxBatchSize :
          w' = [create_graph_data(w, store, graph_config_list, batch_size)
                    EXCEPT !.again = TRUE]
    /\ UNCHANGED <<store, notWrite>>

\* for batch_idx, batch in enumerate(batches, 1): await _create_batch(...)
IssueBatch ==
    /\ w.pc = "loop"
    /\ w.batch_idx < Len(w.batches)
    /\ w' = [w EXCEPT !.pc = "inflight",
                      !.batch_idx = @ + 1,
                      !.issued = Append(@, w.batches[w.batch_idx + 1])]
    /\ UNCHANGED <<store, notWrite>>

\* The store commits the batch in flight.
BatchCommitted ==
    /\ w.pc = "inflight"
    /\ store' = create_batch(store, w.batches[w.batch_idx])
    /\ w' = [w EXCEPT !.pc = "loop",
                      !.committed = @ + 1,
                      !.written = @ \cup Range(w.batches[w.batch_idx])]
    /\ UNCHANGED notWrite

\* The store rejects the batch in flight, whose transaction is rolled back.
BatchFails ==
    /\ w.pc = "inflight"
    /\ \E e \in StoreErrors :
          w' = [on_batch_error(w, e) EXCEPT
                    !.rejected = IF @ = 0 THEN w.batch_idx ELSE @,
                    !.store_error = IF w.rejected = 0 THEN e ELSE @]
    /\ UNCHANGED <<store, notWrite>>

\* asyncio.CancelledError, raised in the coroutine at the await of the batch
\* in flight when its task is cancelled; it is a BaseException and takes
\* no argument here.
CancelledError ==
    [type |-> "CancelledError", message |-> <<>>, details |-> EmptyDict]

\* No except Exception clause of create_graph_data or _create_batch catches
\* the CancelledError, which leaves the call as it is.
on_cancel(call) == [call EXCEPT !.pc = "cancelled", !.error = CancelledError]

\* The caller cancels the write while a batch is in flight; the store may
\* have committed that batch already (landed) or not.
CancelWrite ==
    /\ w.pc = "inflight"
    /\ \E landed \in BOOLEAN :
        /\ store' = IF landed THEN create_batch(store, w.batches[w.batch_idx])
                     ELSE store
        /\ w' = [on_cancel(w) EXCEPT
                    !.committed = IF landed THEN @ + 1 ELSE @,
                    !.written = IF landed
                                THEN @ \cup Range(w.batches[w.batch_idx])
                                ELSE @]
    /\ UNCHANGED notWrite

\* return {...}; elapsed_time_sec, a wall-clock reading, is left out.
ReturnResult ==
    /\ w.pc = "loop"
    /\ w.batch_idx = Len(w.batches)
    /\ w' = [w EXCEPT !.pc = "done",
                      !.result = [configs_processed |-> Len(w.graph_config_list),
                                  batches |-> Len(w.batches)]]
    /\ UNCHANGED <<store, notWrite>>

WriteInit ==
    /\ store = EmptyStore
    /\ w = Idle

\* ------------------------------------------------- the ingestion endpoints

MaxFiles == 2

MaxUploads == 2

\* An UploadFile: its name as <<stem, extension>>, its raw content as a
\* sequence of lines, and the position of its file pointer.
UploadFile(filename, content) ==
    [filename |-> filename, content |-> content, pos |-> 0]

\* await file.read(): from the file pointer to the end of the file
read(file) ==
    [file |-> [file EXCEPT !.pos = Len(file.content)],
     bytes |-> SubSeq(file.content, file.pos + 1, Len(file.content))]

\* await file.seek(offset)
seek(file, offset) == [file EXCEPT !.pos = offset]

\* hashlib.md5(...).hexdigest(), taken to be free of collisions
md5_hexdigest(bytes) == <<"md5">> \o bytes

PeopleCsv == <<"id,name,city", "1,John,NYC", "2,Jane,LA", "1,John,NYC">>

StaffCsv == <<"id,name", "1,John", "3,Bob">>

OfficesCsv == <<"id,city", "1,NYC", "4,LA">>

\* load_file(content, filename), for the contents that are uploaded;
\* the table is named by Path(filename).stem
load_file(content, filename) ==
    LET df == CASE content = PeopleCsv -> people
                [] content = StaffCsv -> staff
                [] content = OfficesCsv -> offices
    IN  [df EXCEPT !.table_name = filename[1]]

\* dataframes[table_name] = df
frames_set(dataframes, df) ==
    IF \E i \in DOMAIN dataframes : dataframes[i].table_name = df.table_name
    THEN [i \in DOMAIN dataframes |->
            IF dataframes[i].table_name = df.table_name THEN df ELSE dataframes[i]]
    ELSE Append(dataframes, df)

\* The validation loop of upload_files: read the file, then seek(0).
RECURSIVE validate_files(_, _)
validate_files(files, i) ==
    IF i > Len(files) THEN files
    ELSE validate_files([files EXCEPT ![i] = seek(read(files[i]).file, 0)], i + 1)

\* _create_data_frame_from_files: each file is read, and left where the
\* read leaves it.
RECURSIVE create_data_frame_from_files(_, _, _)
create_data_frame_from_files(files, i, dataframes) ==
    IF i > Len(files) THEN [files |-> files, dataframes |-> dataframes]
    ELSE LET got == read(files[i])
         IN  create_data_frame_from_files(
                [files EXCEPT ![i] = got.file], i + 1,
                frames_set(dataframes, load_file(got.bytes, files[i].filename)))

\* upload_files, from the validation loop to the response
upload_files(st, files, t, io) ==
    LET validated == validate_files(files, 1)
        created == create_data_frame_from_files(validated, 1, <<>>)
        first_file_content == read(created.files[1]).bytes
        session_id == md5_hexdigest(first_file_content)
        out == create_session(st, session_id, created.dataframes, "file", t, io)
    IN  [sessions |-> out.sessions, files |-> out.files,
         session_id |-> session_id, raised |-> out.raised]

\* db_config.model_dump_json(): the fields in the order of declaration
model_dump_json(db_config) ==
    <<"db_type", db_config.db_type, "host", db_config.host,
      "db", db_config.db, "table_name", db_config.table_name>>

\* _create_data_frame_from_db, for the databases that are loaded
create_data_frame_from_db(db_config) ==
    IF db_config.table_name = "offices" THEN <<offices>> ELSE <<staff, offices>>

\* upload_sql_data
upload_sql_data(st, db_config, t, io) ==
    LET dataframes == create_data_frame_from_db(db_config)
        config == model_dump_json(db_config)
        session_id == md5_hexdigest(config)
        out == create_session(st, session_id, dataframes, "database", t, io)
    IN  [sessions |-> out.sessions, files |-> out.files,
         session_id |-> session_id, raised |-> out.raised]

UploadedFiles ==
    {UploadFile(<<"people", "csv">>, PeopleCsv),
     UploadFile(<<"staff", "csv">>, StaffCsv),
     UploadFile(<<"offices", "csv">>, OfficesCsv)}

FileLists == UNION {[1..n -> UploadedFiles] : n \in 1..MaxFiles}

DBConfigs ==
    {[db_type |-> "postgresql", host |-> "db1", db |-> "hr", table_name |-> tn] :
        tn \in {"offices", "null"}}

\* POST /upload through the one SessionManager of the process.  up.log is
\* history: what each request sent and what it was answered.
UploadFiles ==
    /\ Len(up.log) < MaxUploads
    /\ \E files \in FileLists, io \in {"ok", "open_fails"} :
        LET out == upload_files(St(up.sessions, up.cache_dir), files, now, io)
        IN  up' = [sessions |-> out.sessions, cache_dir |-> out.files,
                   log |-> Append(up.log,
                            [kind |-> "file", raw |-> files[1].content,
                             session_id |-> out.session_id,
                             raised |-> out.raised,
                             replaced |-> out.session_id \in DOMAIN up.cache_dir])]
    /\ UNCHANGED notUpload

\* POST /upload_sql_data
UploadSqlData ==
    /\ Len(up.log) < MaxUploads
    /\ \E db_config \in DBConfigs, io \in {"ok", "open_fails"} :
        LET out == upload_sql_data(St(up.sessions, up.cache_dir), db_config, now, io)
        IN  up' = [sessions |-> out.sessions, cache_dir |-> out.files,
                   log |-> Append(up.log,
                            [kind |-> "database", raw |-> model_dump_json(db_config),
                             session_id |-> out.session_id,
                             raised |-> out.raised,
                             replaced |-> out.session_id \in DOMAIN up.cache_dir])]
    /\ UNCHANGED notUpload

UploadInit == up = [sessions |-> EmptyDict, cache_dir |-> EmptyDict, log |-> <<>>]

\* ------------------------------------------- singleton.Neo4jDriverSingleton

MaxDrivers == 3

\* The coroutines of one event loop that call the singleton; they interleave
\* where the code awaits the network.
Tasks == {"t1", "t2"}

\* _driver = None; a driver is named by the order of its construction
NoDriver == 0

Neo4jConnectionError(message, details) ==
    [type |-> "Neo4jConnectionError", message |-> message,
     status_code |-> 503, details |-> details]

\* A coroutine between calls; after a call, op, d, raised and error keep
\* what the call was, the driver it got and what it raised.
IdleTask ==
    [op |-> "none", pc |-> "idle", d |-> NoDriver, raised |-> FALSE,
     error |-> "none"]

\* The class attributes, and as history: made, the number of drivers
\* constructed, closed, the drivers closed, and failed, whether a
\* verification has failed.
Uninitialized ==
    [driver |-> NoDriver, initialized |-> FALSE,
     made |-> 0, closed |-> {}, failed |-> FALSE,
     task |-> [t \in Tasks |-> IdleTask]]

\* _initialize_driver up to its await: self._driver = AsyncGraphDatabase.driver(...)
initialize_driver(s) ==
    [s EXCEPT !.driver = s.made + 1, !.made = s.made + 1]

\* verify_connectivity returned: self._initialized = True
on_verified(s) == [s EXCEPT !.initialized = TRUE]

\* except Exception: the handle is reset before Neo4jConnectionError is raised
on_verify_error(s) ==
    [s EXCEPT !.initialized = FALSE, !.driver = NoDriver, !.failed = TRUE]

\* close() after await self._driver.close(), which is taken to succeed (what
\* it raises is logged and dropped): the finally block
close_finally(s, d) ==
    [s EXCEPT !.closed = @ \cup {d}, !.driver = NoDriver,
              !.initialized = FALSE]

Returned(s, t, op, d) ==
    [s EXCEPT !.task[t] = [op |-> op, pc |-> "idle", d |-> d,
                           raised |-> FALSE, error |-> "none"]]

Raised(s, t, op, error) ==
    [s EXCEPT !.task[t] = [op |-> op, pc |-> "idle", d |-> NoDriver,
                           raised |-> TRUE, error |-> error]]

Awaiting(s, t, op, pc, d) ==
    [s EXCEPT !.task[t] = [op |-> op, pc |-> pc, d |-> d,
                           raised |-> FALSE, error |-> "none"]]

\* execute_query from self._driver.session() on: None has no session
open_session(s, t) ==
    IF s.driver = NoDriver
    THEN Raised(s, t, "execute_query", "AttributeError")
    ELSE Awaiting(s, t, "execute_query", "run", s.driver)

\* get_driver: returns self at once when _initialized, else constructs a
\* driver and awaits the verification of its connectivity.
GetDriver(t) ==
    /\ drv.task[t].pc = "idle"
    /\ IF drv.initialized
       THEN drv' = Returned(drv, t, "get_driver", drv.driver)
       ELSE /\ drv.made < MaxDrivers
            /\ drv' = Awaiting(initialize_driver(drv), t, "get_driver",
                               "verify", drv.made + 1)
    /\ UNCHANGED notDriver

\* execute_query: initializes the driver like get_driver when not
\* _initialized, then opens a session on self._driver.
ExecuteQuery(t) ==
    /\ drv.task[t].pc = "idle"
    /\ IF drv.initialized
       THEN drv' = open_session(drv, t)
       ELSE /\ drv.made < MaxDrivers
            /\ drv' = Awaiting(initialize_driver(drv), t, "execute_query",
                               "verify", drv.made + 1)
    /\ UNCHANGED notDriver

\* await self._driver.verify_connectivity() returns.
VerifyOk(t) ==
    /\ drv.task[t].pc = "verify"
    /\ drv' = IF drv.task[t].op = "get_driver"
              THEN Returned(on_verified(drv), t, "get_driver", drv.driver)
              ELSE open_session(on_verified(drv), t)
    /\ UNCHANGED notDriver

\* await self._driver.verify_connectivity() raises.
VerifyFails(t) ==
    /\ drv.task[t].pc = "verify"
    /\ drv' = Raised(on_verify_error(drv), t, drv.task[t].op,
                     "Neo4jConnectionError")
    /\ UNCHANGED notDriver

\* session.run and result.data() return; on a driver closed meanwhile the
\* query fails.
QueryReturns(t) ==
    /\ drv.task[t].pc = "run"
    /\ drv' = IF drv.task[t].d \in drv.closed
              THEN Raised(drv, t, "execute_query", "DriverError")
              ELSE Returned(drv, t, "execute_query", drv.task[t].d)
    /\ UNCHANGED notDriver

\* close(): nothing when _driver is None, else await self._driver.close().
Close(t) ==
    /\ drv.task[t].pc = "idle"
    /\ drv' = IF drv.driver = NoDriver
              THEN Returned(drv, t, "close", NoDriver)
              ELSE Awaiting(drv, t, "close", "close", drv.driver)
    /\ UNCHANGED notDriver

\* The driver is closed; finally: _driver = None, _initialized = False.
CloseReturns(t) ==
    /\ drv.task[t].pc = "close"
    /\ drv' = Returned(close_finally(drv, drv.task[t].d), t, "close",
                       drv.task[t].d)
    /\ UNCHANGED notDriver

DriverInit == drv = Uninitialized

\* ----------------------------------------------- endpoints.graph_builder

MaxRequests == 2

\* batch_size=1000 of the endpoint's call of create_graph_data
RequestBatchSize == 1000

\* graph_api[:limit] if limit else graph_api (no limit is passed as 0)
graph_api_to_process(graph_api, lim) ==
    IF lim = 0 THEN graph_api
    ELSE IF lim > 0 THEN slice(graph_api, 0, lim)
    ELSE IF Len(graph_api) + lim <= 0 THEN <<>>
    ELSE slice(graph_api, 0, Len(graph_api) + lim)

\* The loop of Neo4jGraphCreation.create_graph_data run to its end: the
\* store rejects batch fails with e, or no batch when fails = 0.
RECURSIVE run_batches(_, _, _, _)
run_batches(call, graph, fails, e) ==
    IF call.batch_idx = Len(call.batches)
    THEN [graph |-> graph, raised |-> FALSE,
          result |-> [configs_processed |-> Len(call.graph_config_list),
                      batches |-> Len(call.batches)]]
    ELSE LET next == [call EXCEPT !.batch_idx = @ + 1]
         IN  IF next.batch_idx = fails
             THEN [graph |-> graph, raised |-> TRUE,
                   error |-> on_batch_error(next, e).error]
             ELSE run_batches(next, create_batch(graph, next.batches[next.batch_idx]),
                              fails, e)

write_graph(graph, graph_config_list, batch_size, fails, e) ==
    LET call == create_graph_data(Idle, graph, graph_config_list, batch_size)
    IN  IF call.pc = "failed"
        THEN [graph |-> graph, raised |-> TRUE, error |-> call.error]
        ELSE run_batches(call, graph, fails, e)

\* What a handler answers: the state it leaves its SessionManager st and
\* the graph store g in, the driver d it constructed and whether it closed it.
Answer(st, status_code, detail, d, closed, g) ==
    [sessions |-> st.sessions, files |-> st.files, graph |-> g,
     status_code |-> status_code, detail |-> detail,
     driver |-> d, closed |-> closed]

\* The handler of POST /create_graph_data/{session_id} from line 31 on, with
\* the session's tables.  opened counts the drivers constructed so far.
build_graph(r, st, graph, dataframes, rules, lim, fails, e) ==
    IF rules = <<>>
    THEN Answer(st, 400, <<"Graph configuration list is empty">>,
                NoDriver, FALSE, graph)
    ELSE LET graph_api == create_graph_api(rules, dataframes)
             graph_builder == r.opened + 1
         IN  IF graph_api.raised
             THEN Answer(st, 500,
                         <<"Failed to create graph data: ">> \o graph_api.error.message,
                         NoDriver, FALSE, graph)
             ELSE LET written ==
                        CHOOSE x \in {write_graph(graph,
                                        graph_api_to_process(graph_api.value, lim),
                                        RequestBatchSize, fails, e)} : TRUE
                  IN  IF written.raised
                      THEN Answer(st, 500,
                                  <<"Failed to create graph data: ">>
                                        \o str(written.error),
                                  graph_builder, FALSE, written.graph)
                      ELSE Answer(st, 200, <<"success">>, graph_builder, TRUE,
                                  written.graph)

\* The handler of POST /create_graph_data/{session_id}.
create_graph_data_endpoint(r, graph, session_id, rules, lim, t, fails, e) ==
    LET info == get_session_info(St(r.sessions, r.cache_dir), session_id, t)
        dataframes == get_dataframes(St(info.sessions, info.files), session_id, t)
    IN  IF ~info.found
        THEN Answer(info, 404, <<"Session not found or expired">>,
                    NoDriver, FALSE, graph)
        ELSE IF ~dataframes.found \/ dataframes.value = <<>>
        THEN Answer(dataframes, 404, <<"No data found for this session">>,
                    NoDriver, FALSE, graph)
        ELSE build_graph(r, dataframes, graph, dataframes.value, rules, lim,
                         fails, e)

\* The handler of POST /check_neo4j_db: the query matches a relationship,
\* so a store without one gives no row.
check_neo4j_db(r, graph, query_fails) ==
    LET graph_builder == r.opened + 1
    IN  IF query_fails
        THEN [status_code |-> 500,
              detail |-> <<"Neo4j connection error: ">> \o <<"Failed to execute query">>,
              driver |-> graph_builder, closed |-> FALSE]
        ELSE [status_code |-> 200,
              detail |-> <<"success">>,
              driver |-> graph_builder, closed |-> TRUE]

\* The rules of the requests: none, one that projects, one whose
\* relationship lists no column (and so does not project).
RequestRules ==
    {<<>>,
     <<[source |-> GraphElement("Person", <<"id", "name">>),
        target |-> GraphElement("City", <<"city">>),
        rels |-> GraphElement("LIVES_IN", <<"id">>)]>>,
     <<[source |-> GraphElement("Person", <<"id", "name">>),
        target |-> GraphElement("City", <<"city">>),
        rels |-> GraphElement("LIVES_IN", <<>>)]>>}

\* The limit parameter: absent, the first edge, all but the last three.
Limits == {0, 1, 0 - 3}

\* An ingestion endpoint has created session s1.
SessionIngested ==
    /\ req.cache_dir = EmptyDict
    /\ \E input \in Ingested :
        LET out == create_session(St(req.sessions, req.cache_dir), "s1",
                                  input.dataframes, input.source_type, now, "ok")
        IN  req' = [req EXCEPT !.sessions = out.sessions,
                               !.cache_dir = out.files]
    /\ UNCHANGED <<store, notRequest>>

CreateGraphDataRequest ==
    /\ Len(req.log) < MaxRequests
    /\ \E session_id \in SessionIds, graph_config_list \in RequestRules,
          lim \in Limits, fails \in 0..1 :
        \E out \in {create_graph_data_endpoint(req, store, session_id,
                        graph_config_list, lim, now, fails,
                        <<"ServiceUnavailable">>)} :
            /\ store' = out.graph
            /\ req' = [sessions |-> out.sessions, cache_dir |-> out.files,
                       opened |-> IF out.driver = NoDriver THEN req.opened
                                  ELSE out.driver,
                       closed |-> IF out.closed THEN req.closed \cup {out.driver}
                                  ELSE req.closed,
                       log |-> Append(req.log,
                                [op |-> "create_graph_data",
                                 status_code |-> out.status_code,
                                 detail |-> out.detail,
                                 driver |-> out.driver])]
    /\ UNCHANGED notRequest

CheckNeo4jDbRequest ==
    /\ Len(req.log) < MaxRequests
    /\ \E query_fails \in BOOLEAN :
        LET out == check_neo4j_db(req, store, query_fails)
        IN  req' = [req EXCEPT
                       !.opened = out.driver,
                       !.closed = IF out.closed THEN @ \cup {out.driver} ELSE @,
                       !.log = Append(@, [op |-> "check_neo4j_db",
                                          status_code |-> out.status_code,
                                          detail |-> out.detail,
                                          driver |-> out.driver])]
    /\ UNCHANGED <<store, notRequest>>

RequestInit ==
    req = [sessions |-> EmptyDict, cache_dir |-> EmptyDict,
           opened |-> 0, closed |-> {}, log |-> <<>>]

\* -------------------------------------------------------- the specifications

Init ==
    /\ SessionInit
    /\ ProjInit
    /\ WriteInit
    /\ UploadInit
    /\ DriverInit
    /\ RequestInit

Next ==
    \/ Tick
    \/ SessionNext("m1")

\* One SessionManager on its cache directory, restarts included.
Spec == Init /\ [][Next]_vars

NextWorkers ==
    \E m \in Managers :
        \/ DeleteSession(m)
        \/ CreateSession(m)
        \/ GetSession(m)

\* The SessionManagers of several worker processes on one cache directory.
SpecWorkers == Init /\ [][NextWorkers]_vars

NextProject ==
    \/ FindDataFrame
    \/ CreateGraphApi

\* The projection applied to every input within the bounds.
SpecProject == Init /\ [][NextProject]_vars

NextWrite ==
    \/ CreateGraphData
    \/ CreateGraphDataAgain
    \/ IssueBatch
    \/ BatchCommitted
    \/ BatchFails
    \/ CancelWrite
    \/ ReturnResult

\* Calls of create_graph_data, one after the other, on one graph store.
SpecWrite == Init /\ [][NextWrite]_vars

NextUpload ==
    \/ UploadSqlData
    \/ UploadFiles

\* Requests to the two ingestion endpoints, one after the other.
SpecUpload == Init /\ [][NextUpload]_vars

NextDriver ==
    \E t \in Tasks :
        \/ GetDriver(t)
        \/ ExecuteQuery(t)
        \/ VerifyOk(t)
        \/ VerifyFails(t)
        \/ QueryReturns(t)
        \/ Close(t)
        \/ CloseReturns(t)

\* Coroutines calling the one Neo4jDriverSingleton of a process.
SpecDriver == Init /\ [][NextDriver]_vars

NextRequest ==
    \/ SessionIngested
    \/ CreateGraphDataRequest
    \/ CheckNeo4jDbRequest

\* Requests to the two graph_builder endpoints, one after the other.
SpecRequest == Init /\ [][NextRequest]_vars

\* ------------------------------------------------------ the session cache

AccessOps == {"get_session", "get_dataframes", "get_session_info"}

\* The last call was an access that answers for session_id at the one time
\* ret.t (a list_sessions during which the clock did not advance).
AskedFor(session_id) ==
    \/ ret.op \in AccessOps /\ ret.id = session_id
    \/ ret.op = "list_sessions" /\ ret.t2 = ret.t

ReportedPresent(session_id) ==
    IF ret.op = "list_sessions"
    THEN session_id \in DOMAIN ret.value /\ ret.value[session_id] # None
    ELSE ret.found

\* C1 as amended: a session created at time c (and neither deleted nor
\* overwritten by a failed save since) is returned by get, getTables, getInfo
\* and list at every time t with t - c <= T and reported absent at every t
\* with t - c > T, from the in-memory map and from the durable record alike.
C1_ExpiryAfterTimeout ==
    \A session_id \in DOMAIN live :
        AskedFor(session_id) =>
            (ReportedPresent(session_id)
                <=> ret.t - live[session_id].created_at <= SessionTimeout)

\* C1 as stated: returned exactly when t - c < T.
C1_AbsentAtTimeout ==
    \A session_id \in DOMAIN live :
        AskedFor(session_id) =>
            (ReportedPresent(session_id)
                <=> ret.t - live[session_id].created_at < SessionTimeout)

\* A session loaded from its durable record exactly at t - c = T.
C1_Witness ==
    /\ ret.op = "get_session"
    /\ ret.id \in DOMAIN live
    /\ ~ret.cached
    /\ ret.found
    /\ ret.t - live[ret.id].created_at = SessionTimeout

\* C2: before expiry, get_dataframes returns the dataframes of the most
\* recent create_session of that id (which succeeded), from the in-memory map
\* and, after a restart, from the durable record.
C2_RoundTrip ==
    (/\ ret.op = "get_dataframes"
     /\ ret.id \in DOMAIN live
     /\ ret.t - live[ret.id].created_at <= SessionTimeout)
        => ret.found /\ ret.value = live[ret.id].dataframes

\* Two tables read back from the durable record by a fresh manager.
C2_Witness ==
    /\ ret.op = "get_dataframes"
    /\ ret.id \in DOMAIN live
    /\ ~ret.cached
    /\ ret.found
    /\ ret.value = <<staff, offices>>
    /\ ret.value = live[ret.id].dataframes

\* ----------------------------------------------------------- the projection

\* The last call projected graph_config_list over one table without raising.
ProjectedOneTable ==
    /\ proj.op = "create_graph_api"
    /\ Len(proj.data_dico) = 1
    /\ ~proj.out.raised

\* Every column the element lists is a column of data, and it lists some.
Resolvable(element, data) ==
    /\ element.properties # <<>>
    /\ Range(element.properties) \subseteq Range(data.columns)

\* C3: over a single table of n rows one rule yields n edges in row order,
\* and in edge i each of source, target and rels carries its element's label
\* and, for every column c its element lists, properties[c] = row i's c.
C3_EdgePerRowWithRowValues ==
    (/\ proj.op = "create_graph_api"
     /\ Len(proj.data_dico) = 1
     /\ Len(proj.graph_config_list) = 1
     /\ \A part \in Parts :
            Resolvable(proj.graph_config_list[1][part], proj.data_dico[1]))
        => LET data == proj.data_dico[1]
               graph_config == proj.graph_config_list[1]
           IN  /\ ~proj.out.raised
               /\ Len(proj.out.value) = Len(data.rows)
               /\ \A i \in DOMAIN data.rows, part \in Parts :
                    LET record == proj.out.value[i][part] IN
                    /\ record.label = graph_config[part].label
                    /\ \A c \in Range(graph_config[part].properties) :
                        /\ dict_has(record.properties, c)
                        /\ dict_get(record.properties, c) = data.rows[i][c]

\* The rule and the row that edge e of a single-table projection comes from.
RuleOfEdge(e) ==
    proj.graph_config_list[((e - 1) \div Len(proj.data_dico[1].rows)) + 1]

RowIndexOfEdge(e) == ((e - 1) % Len(proj.data_dico[1].rows)) + 1

RowOfEdge(e) == proj.data_dico[1].rows[RowIndexOfEdge(e)]

\* The (column, value) pairs that part of edge e takes from its row.
PairsOf(e, part) ==
    {<<c, RowOfEdge(e)[c]>> :
        c \in Range(RuleOfEdge(e)[part].properties)
                \cap Range(proj.data_dico[1].columns)}

IdOf(record) == dict_get(record.properties, "id")

\* C4: the id of a record depends only on its label and on the set of
\* (column, value) pairs it takes from its row: records of any two rows and
\* rules with the same label and the same pairs have the same id, in
\* whatever order their elements list the columns.
C4_IdFromLabelAndPairs ==
    ProjectedOneTable =>
        \A e1, e2 \in DOMAIN proj.out.value : \A part1, part2 \in Parts :
            (/\ RuleOfEdge(e1)[part1].label = RuleOfEdge(e2)[part2].label
             /\ PairsOf(e1, part1) = PairsOf(e2, part2))
                => IdOf(proj.out.value[e1][part1]) = IdOf(proj.out.value[e2][part2])

\* Two rows and two rules listing the same columns in different orders.
C4_Witness ==
    /\ ProjectedOneTable
    /\ \E e1, e2 \in DOMAIN proj.out.value :
        /\ RowIndexOfEdge(e1) # RowIndexOfEdge(e2)
        /\ RuleOfEdge(e1).source.properties # RuleOfEdge(e2).source.properties
        /\ PairsOf(e1, "source") = PairsOf(e2, "source")
        /\ Cardinality(PairsOf(e1, "source")) = 2
        /\ IdOf(proj.out.value[e1].source) = IdOf(proj.out.value[e2].source)

\* The tables of data_dico whose columns include every required column.
Qualifying(data_dico, props) ==
    {i \in DOMAIN data_dico : Range(props) \subseteq Range(data_dico[i].columns)}

\* C5: find_data_frame returns the first table whose columns include every
\* required column, narrowed to the required columns in the order given, and
\* never a table that has only some of them.
C5_FirstTableWithAllColumns ==
    (proj.op = "find_data_frame" /\ proj.props # <<>>)
        => LET qualifying == Qualifying(proj.data_dico, proj.props) IN
           IF qualifying = {} THEN proj.out.raised
           ELSE LET first == CHOOSE i \in qualifying : \A j \in qualifying : i <= j
                IN  /\ ~proj.out.raised
                    /\ proj.out.value.df_name = proj.data_dico[first].table_name
                    /\ proj.out.value.df = narrowed(proj.data_dico[first], proj.props)

\* The columns some rule lists that no table has.
ColumnsOfNoTable(graph_config_list, data_dico) ==
    {c \in UNION {Range(graph_config_list[k][part].properties) :
                    k \in DOMAIN graph_config_list, part \in Parts} :
        \A i \in DOMAIN data_dico : c \notin Range(data_dico[i].columns)}

\* C6: when some rule lists a column that no table has, the projection
\* raises an error that names such a column, and so returns no edge.
C6_MissingColumnRaises ==
    (/\ proj.op = "create_graph_api"
     /\ proj.data_dico # <<>>
     /\ ColumnsOfNoTable(proj.graph_config_list, proj.data_dico) # {})
        => /\ proj.out.raised
           /\ \E c \in ColumnsOfNoTable(proj.graph_config_list, proj.data_dico) :
                c \in Range(proj.out.error.message)

\* ---------------------------------------------------------------- the writer

Ceil(n, b) == (n + b - 1) \div b

\* C7: a write of n >= 1 edges with batch size b >= 1 that succeeds has
\* issued exactly ceil(n/b) batches, the k-th being the edges
\* (k-1)*b+1 .. min(k*b, n) of the input in input order, and its result
\* reports configs_processed = n and batches = ceil(n/b).
C7_BatchesPartitionInput ==
    w.pc = "done" =>
        LET n == Len(w.graph_config_list)
            b == w.batch_size
        IN  /\ n >= 1 /\ b >= 1
            /\ Len(w.issued) = Ceil(n, b)
            /\ \A k \in 1..Ceil(n, b) :
                /\ Len(w.issued[k]) = Min(k * b, n) - (k - 1) * b
                /\ \A j \in 1..Len(w.issued[k]) :
                    w.issued[k][j] = w.graph_config_list[(k - 1) * b + j]
            /\ w.result = [configs_processed |-> n, batches |-> Ceil(n, b)]

\* Three edges written in a batch of two and a batch of one.
C7_Witness ==
    /\ w.pc = "done"
    /\ Len(w.graph_config_list) = 3
    /\ w.batch_size = 2
    /\ Len(w.issued) = 2
    /\ Len(w.issued[2]) = 1
    /\ w.result.batches = 2

\* The store after the batches 1..k of the call, from the store it found.
RECURSIVE StoreAfter(_)
StoreAfter(k) ==
    IF k = 0 THEN w.store0 ELSE create_batch(StoreAfter(k - 1), w.batches[k])

\* C8: at every moment of a write the batches issued are a prefix of the
\* batch sequence of which all but at most the last one, the one in flight,
\* have been committed; once the store has rejected a batch no further
\* batch is issued, and the store holds the batches committed before it.
C8_SequentialPrefix ==
    /\ Len(w.issued) <= Len(w.batches)
    /\ \A k \in 1..Len(w.issued) : w.issued[k] = w.batches[k]
    /\ w.committed <= Len(w.issued)
    /\ Len(w.issued) <= w.committed + 1
    /\ w.pc = "inflight" => Len(w.issued) = w.committed + 1
    /\ w.pc \in {"loop", "done"} => Len(w.issued) = w.committed
    /\ w.rejected # 0 =>
        /\ w.pc = "failed"
        /\ Len(w.issued) = w.rejected
        /\ w.committed = w.rejected - 1
    /\ store = StoreAfter(w.committed)

\* The second of three batches was rejected, the first stays committed.
C8_Witness ==
    /\ w.pc = "failed"
    /\ Len(w.batches) = 3
    /\ w.rejected = 2
    /\ Len(w.issued) = 2
    /\ store = StoreAfter(1)
    /\ store # w.store0

\* s occurs in t as a run of consecutive tokens.
Occurs(s, t) ==
    \E i \in 0..(Len(t) - Len(s)) : SubSeq(t, i + 1, i + Len(s)) = s

\* Some field of the details other than the error text holds value; configs,
\* the length of the whole list, is not such a field.
Reports(details, value) ==
    \E f \in DOMAIN details \ {"error", "configs"} : details[f] = value

\* C9: when the store rejects batch k, the error create_graph_data raises
\* names k, the size of batch k, the error of the store, and the number of
\* edges committed before it, (k-1) * batch size.
C9_ErrorNamesBatchAndCommitted ==
    (w.pc = "failed" /\ w.rejected # 0) =>
        LET k == w.rejected
            details == w.error.details
        IN  /\ \/ Occurs(str_int(k), w.error.message)
               \/ Occurs(str_int(k), details.error)
            /\ Reports(details, Len(w.batches[k]))
            /\ Occurs(w.store_error, details.error)
            /\ Reports(details, (k - 1) * w.batch_size)

\* What the error does name: the batch index, in the text of details.error.
C9_ErrorNamesBatchIndex ==
    (w.pc = "failed" /\ w.rejected # 0) =>
        /\ w.error.details.error = <<"Failed to process batch">> \o str_int(w.rejected)
        /\ w.error.details.configs = Len(w.graph_config_list)

\* list without the repetitions of an edge that occurs earlier in it
RECURSIVE Distinct(_)
Distinct(list) ==
    IF list = <<>> THEN <<>>
    ELSE LET front == SubSeq(list, 1, Len(list) - 1)
             last == list[Len(list)]
         IN  IF last \in Range(front) THEN Distinct(front)
             ELSE Append(Distinct(front), last)

NodeKey(node) == <<node.label, node.props["id"]>>

RelKey(rel) == <<rel.source, rel.type, rel.target>>

\* C10: the store never holds two nodes with the same (label, id) nor two
\* relationships with the same (source node, type, target node); a write
\* of edges that were all committed before leaves the store as it found
\* it, and a write leaves the store as one batch of its distinct edges does.
C10_IdempotentWrite ==
    /\ \A i, j \in DOMAIN store.nodes :
            NodeKey(store.nodes[i]) = NodeKey(store.nodes[j]) => i = j
    /\ \A i, j \in DOMAIN store.rels :
            RelKey(store.rels[i]) = RelKey(store.rels[j]) => i = j
    /\ {NodeKey(store.nodes[i]) : i \in DOMAIN store.nodes}
            = UNION {{<<e.source.label, IdOf(e.source)>>,
                      <<e.target.label, IdOf(e.target)>>} : e \in w.written}
    /\ Range(w.graph_config_list) \subseteq w.written0 => store = w.store0
    /\ w.pc = "done" =>
            store = create_batch(w.store0, Distinct(w.graph_config_list))

\* A list with an edge in two of its batches, written a second time.
C10_Witness ==
    /\ w.pc = "done"
    /\ w.again
    /\ Len(w.graph_config_list) = 3
    /\ Len(w.batches) = 2
    /\ w.graph_config_list[1] = w.graph_config_list[3]
    /\ w.graph_config_list[1] # w.graph_config_list[2]
    /\ Range(w.graph_config_list) \subseteq w.written0
    /\ Len(store.nodes) = 4
    /\ Len(store.rels) = 2
    /\ store = w.store0

\* The sessions that a manager in state st holds unexpired at time t, in
\* its memory or as a readable durable record.
HeldInMemory(st, session_id, t) ==
    /\ session_id \in DOMAIN st.sessions
    /\ session_valid(st.sessions[session_id], t)

HeldOnDisk(st, session_id, t) ==
    /\ session_id \in DOMAIN st.files
    /\ pickle_readable(st.files[session_id])
    /\ session_valid(pickle_load(st.files[session_id]), t)

Unexpired(st, t) ==
    {session_id \in SessionIds :
        HeldInMemory(st, session_id, t) \/ HeldOnDisk(st, session_id, t)}

\* The sessions that a scan of st at time t finds expired.
FoundExpired(st, t) ==
    {session_id \in SessionIds :
        \/ /\ session_id \in DOMAIN st.sessions
           /\ ~session_valid(st.sessions[session_id], t)
        \/ /\ session_id \in DOMAIN st.files
           /\ pickle_readable(st.files[session_id])
           /\ ~session_valid(pickle_load(st.files[session_id]), t)}

\* The manager m holds a readable durable record of session_id.
HasRecord(session_id) ==
    /\ session_id \in DOMAIN cache_dir
    /\ pickle_readable(cache_dir[session_id])

\* C12: list maps no session to a null value; it returns exactly the
\* sessions held unexpired in memory or as a readable durable record, each
\* with its metadata; a session it finds expired is left out and has
\* afterwards neither an in-memory entry nor a readable durable record.
C12_ListExactlyUnexpired ==
    ret.op = "list_sessions" =>
        /\ \A session_id \in DOMAIN ret.value : ret.value[session_id] # None
        /\ ret.t2 = ret.t =>
            /\ DOMAIN ret.value = Unexpired(ret.before, ret.t)
            /\ \A session_id \in DOMAIN ret.value :
                    ret.value[session_id] =
                        session_info(
                            IF HeldInMemory(ret.before, session_id, ret.t)
                            THEN ret.before.sessions[session_id]
                            ELSE pickle_load(ret.before.files[session_id]))
            /\ \A session_id \in FoundExpired(ret.before, ret.t)
                                    \ Unexpired(ret.before, ret.t) :
                    /\ session_id \notin DOMAIN ret.value
                    /\ session_id \notin DOMAIN sessions[ret.m]
                    /\ ~HasRecord(session_id)

\* What does hold: C12 for a list during which the clock does not pass the
\* expiry of a session held in memory.
C12_ListWhileClockStands ==
    (ret.op = "list_sessions" /\ ret.t2 = ret.t) => C12_ListExactlyUnexpired

\* DELETE /{session_id}: the status the endpoint answers with
delete_session_status(success) == IF success THEN 200 ELSE 404

\* C13: delete_session returns true exactly when the id had an in-memory
\* entry or a durable record, which it removed; for an id that had neither
\* it returns false, and the endpoint answers 404.
C13_DeleteReportsRemoval ==
    ret.op = "delete_session" =>
        LET existed == \/ ret.id \in DOMAIN ret.before.sessions
                       \/ ret.id \in DOMAIN ret.before.files
        IN  /\ ret.value = existed
            /\ ~existed => delete_session_status(ret.value) = 404
            /\ ret.id \notin DOMAIN sessions[ret.m]
            /\ ret.id \notin DOMAIN cache_dir

\* C14: a session that a manager deleted (delete returned true) and that
\* was not created since has no in-memory entry in that manager and no
\* durable record, and get, getTables, getInfo and list of that manager
\* report it absent.
C14_DeletedStaysAbsent ==
    \A d \in deleted :
        /\ d[2] \notin DOMAIN sessions[d[1]]
        /\ d[2] \notin DOMAIN cache_dir
        /\ (ret.op \in AccessOps /\ ret.m = d[1] /\ ret.id = d[2]) =>
                ~ret.found /\ ret.value = None
        /\ (ret.op = "list_sessions" /\ ret.m = d[1]) =>
                d[2] \notin DOMAIN ret.value

\* A session that was held, was deleted and is asked for again, before it
\* would have expired.
C14_Witness ==
    /\ ret.op = "get_dataframes"
    /\ <<ret.m, ret.id, TRUE>> \in deleted
    /\ ~ret.found
    /\ now = 0

\* The ids whose durable record cannot be read.
Unreadable(st) ==
    {session_id \in DOMAIN st.files : ~pickle_readable(st.files[session_id])}

\* C15: cleanup_expired_sessions returns the number of sessions it removed,
\* an expired session (or an unreadable record) counting once, whether it
\* was held in memory, on disk or both.
C15_CleanupCountsEachOnce ==
    ret.op = "cleanup_expired_sessions" =>
        ret.value = Cardinality(FoundExpired(ret.before, ret.t)
                                    \cup Unreadable(ret.before))

C17_CreateAllOrNothing ==
    ret.op = "create_session" =>
        IF ret.raised
        THEN /\ sessions[ret.m] = ret.before.sessions
             /\ (/\ ret.id \in DOMAIN ret.before.files
                 /\ pickle_readable(ret.before.files[ret.id])) =>
                    /\ ret.id \in DOMAIN cache_dir
                    /\ cache_dir[ret.id] = ret.before.files[ret.id]
        ELSE /\ ret.id \in DOMAIN sessions[ret.m]
             /\ sessions[ret.m][ret.id].created_at = ret.t
             /\ sessions[ret.m][ret.id].dataframes = live[ret.id].dataframes
             /\ HasRecord(ret.id)
             /\ pickle_load(cache_dir[ret.id]) = sessions[ret.m][ret.id]

\* The pairs of rows of A and B that agree on id.
MatchingPairs(A, B) ==
    {ij \in (DOMAIN A.rows) \X (DOMAIN B.rows) :
        A.rows[ij[1]]["id"] = B.rows[ij[2]]["id"]}

\* Two tables A, B sharing the column id, and one rule whose source columns
\* are columns of A alone, whose target columns are columns of B alone and
\* whose relationship column is id.
JoinOnIdCase ==
    /\ proj.op = "create_graph_api"
    /\ Len(proj.data_dico) = 2
    /\ Len(proj.graph_config_list) = 1
    /\ LET A == proj.data_dico[1]
           B == proj.data_dico[2]
           rule == proj.graph_config_list[1]
       IN  /\ "id" \in Range(A.columns) \cap Range(B.columns)
           /\ rule.source.properties # <<>>
           /\ Range(rule.source.properties)
                  \subseteq Range(A.columns) \ Range(B.columns)
           /\ rule.target.properties # <<>>
           /\ Range(rule.target.properties)
                  \subseteq Range(B.columns) \ Range(A.columns)
           /\ rule.rels.properties = <<"id">>

\* C18: with two tables sharing id, a rule with its source columns only in
\* the first and its target columns only in the second is projected without
\* error, one edge per pair of rows that agree on id.
C18_JoinOnSharedId ==
    JoinOnIdCase =>
        /\ ~proj.out.raised
        /\ Len(proj.out.value) =
              Cardinality(MatchingPairs(proj.data_dico[1], proj.data_dico[2]))

\* Whatever the rules, a projection over two tables returns edges only for
\* an empty rule list.
C18_TwoTablesNeverProject ==
    (/\ proj.op = "create_graph_api"
     /\ Len(proj.data_dico) > 1
     /\ proj.graph_config_list # <<>>) => proj.out.raised

\* One table and one rule whose source and target columns are columns of
\* the table and whose relationship lists no column.
NoRelsColumnsCase ==
    /\ proj.op = "create_graph_api"
    /\ Len(proj.data_dico) = 1
    /\ Len(proj.graph_config_list) = 1
    /\ Resolvable(proj.graph_config_list[1].source, proj.data_dico[1])
    /\ Resolvable(proj.graph_config_list[1].target, proj.data_dico[1])
    /\ proj.graph_config_list[1].rels.properties = <<>>

\* C19: a rule whose relationship lists no columns is accepted: over a table
\* of n rows it yields n edges, each with a relationship record that has the
\* rule's relationship label and no column of the table among its
\* properties.
C19_EmptyRelsColumnsAccepted ==
    NoRelsColumnsCase =>
        /\ ~proj.out.raised
        /\ Len(proj.out.value) = Len(proj.data_dico[1].rows)
        /\ \A i \in DOMAIN proj.out.value :
              /\ proj.out.value[i].rels.label
                    = proj.graph_config_list[1].rels.label
              /\ \A c \in Range(proj.data_dico[1].columns) \ {"id"} :
                    ~dict_has(proj.out.value[i].rels.properties, c)

\* A rule whose relationship lists no columns is always refused, with the
\* ValueError of check_cols_exist_in_db.
C19_EmptyRelsColumnsRaise ==
    NoRelsColumnsCase =>
        /\ proj.out.raised
        /\ proj.out.error.type = "ValueError"

\* The last call was create_graph_api with no rule or with no table.
EmptyInputCase ==
    /\ proj.op = "create_graph_api"
    /\ \/ proj.graph_config_list = <<>>
       \/ proj.data_dico = <<>>

\* C20: create_graph_api with an empty rule list or with no table raises,
\* and the error is not an index error: it returns no edge list, empty or
\* not.
C20_EmptyInputRaises ==
    EmptyInputCase =>
        /\ proj.out.raised
        /\ proj.out.error.type # "IndexError"

\* What the call does on empty input: no table gives the IndexError of
\* list(data_dico.values())[0], whatever the rules; an empty rule list over
\* some table gives the empty edge list.
C20_EmptyInputOutcome ==
    EmptyInputCase =>
        IF proj.data_dico = <<>>
        THEN proj.out.raised /\ proj.out.error.type = "IndexError"
        ELSE proj.out = Return(<<>>)

\* The edges of list, by position, that are written onto relationship rel.
EdgesOnto(list, rel) ==
    {i \in DOMAIN list :
        /\ <<list[i].source.label, IdOf(list[i].source)>>
                = NodeKey(store.nodes[rel.source])
        /\ list[i].rels.label = rel.type
        /\ <<list[i].target.label, IdOf(list[i].target)>>
                = NodeKey(store.nodes[rel.target])}

Max(S) == CHOOSE x \in S : \A y \in S : y <= x

MinOf(S) == CHOOSE x \in S : \A y \in S : x <= y

\* A call on the empty store that has written its whole list.
WroteWholeList ==
    /\ w.pc = "done"
    /\ w.store0 = EmptyStore

\* C21: after a write each relationship of the store holds the properties
\* of the last edge that was written for it.
C21_LastWriteWins ==
    WroteWholeList =>
        \A k \in DOMAIN store.rels :
            LET onto == EdgesOnto(w.graph_config_list, store.rels[k])
            IN  /\ onto # {}
                /\ store.rels[k].props
                     = props_map(w.graph_config_list[Max(onto)].rels.properties)

\* What the merge does: each relationship keeps the properties of the first
\* edge that was written for it.
C21_FirstWriteKept ==
    WroteWholeList =>
        \A k \in DOMAIN store.rels :
            LET onto == EdgesOnto(w.graph_config_list, store.rels[k])
            IN  /\ onto # {}
                /\ store.rels[k].props
                     = props_map(w.graph_config_list[MinOf(onto)].rels.properties)

\* ------------------------------------------------------ the driver singleton

\* The fields of the handle itself.
Handle(s) == <<s.driver, s.initialized, s.made, s.closed>>

\* Ready is entered from Initializing alone: _initialized is set by a
\* coroutine that was awaiting the verification.
ReadyFromInitializing ==
    (~drv.initialized /\ drv'.initialized) =>
        \E t \in Tasks : drv.task[t].pc = "verify" /\ drv'.task[t].pc # "verify"

\* A failed verification is raised to its caller as Neo4jConnectionError,
\* and the call constructs no further driver.
FailureSurfaces ==
    \A t \in Tasks :
        (drv.task[t].pc = "verify" /\ drv'.failed /\ drv'.task[t] # drv.task[t]
         /\ ~drv'.initialized /\ drv'.driver = NoDriver
         /\ drv'.task[t].raised) =>
            /\ drv'.task[t].pc = "idle"
            /\ drv'.task[t].error = "Neo4jConnectionError"
            /\ drv'.made = drv.made

\* close() on a handle without a driver raises nothing and changes nothing.
CloseTwiceIsNoOp ==
    \A t \in Tasks :
        (drv.task[t].pc = "idle" /\ drv.driver = NoDriver
         /\ drv'.task[t] # drv.task[t] /\ drv'.task[t].op = "close") =>
            /\ ~drv'.task[t].raised
            /\ drv'.task[t].pc = "idle"
            /\ Handle(drv') = Handle(drv)

\* Closed is terminal: once close() has closed the driver, no call
\* constructs a driver and the handle is never initialized again.
ClosedIsTerminal ==
    drv.closed # {} => (drv'.made = drv.made /\ ~drv'.initialized)

\* C22: the handle moves Uninitialized -> Initializing -> Ready -> Closed or
\* Initializing -> Failed, a failure being raised as a connection error and
\* not retried by the call; Closed is terminal, no later get_driver or
\* execute_query initializes the connection again, and a second close() is
\* a no-op that raises nothing.
C22_HandleLifecycle ==
    [][/\ ReadyFromInitializing
       /\ FailureSurfaces
       /\ CloseTwiceIsNoOp
       /\ ClosedIsTerminal]_vars

\* The lifecycle without the terminal state.
C22_LifecycleButTerminal ==
    [][/\ ReadyFromInitializing
       /\ FailureSurfaces
       /\ CloseTwiceIsNoOp]_vars

\* Only get_driver and execute_query have been called, and no verification
\* has failed.
OnlyInitializingCalls ==
    /\ drv.closed = {}
    /\ ~drv.failed
    /\ \A t \in Tasks : drv.task[t].op # "close"

\* The drivers that were constructed, are not closed and are no longer the
\* handle's _driver.
Overwritten == {d \in 1..drv.made : d \notin drv.closed /\ d # drv.driver}

\* C27: however get_driver and execute_query calls interleave on the
\* uninitialized singleton, one driver at most is constructed, every call
\* that has got a driver has got that one, and no driver is overwritten
\* and left unclosed.
C27_OneDriverForAll ==
    OnlyInitializingCalls =>
        /\ drv.made <= 1
        /\ \A t \in Tasks :
              (drv.task[t].op # "none" /\ ~drv.task[t].raised) =>
                    drv.task[t].d = drv.driver
        /\ Overwritten = {}

\* ------------------------------------------------- the graph_builder requests

\* The requests that constructed a driver.
WithDriver == {i \in DOMAIN req.log : req.log[i].driver # NoDriver}

\* C23: the write and statistics requests of a process never construct
\* more than one driver between them: those that use the store use the
\* same driver.
C23_DriverAcquiredOnce ==
    /\ req.opened <= 1
    /\ \A i, j \in WithDriver : req.log[i].driver = req.log[j].driver

\* What the endpoints do: every request that reaches the store constructs
\* a driver of its own.
C23_DriverPerRequest ==
    /\ req.opened = Cardinality(WithDriver)
    /\ \A i, j \in WithDriver : req.log[i].driver = req.log[j].driver => i = j

\* C30: every driver that a create_graph_data request opened is closed when
\* the request has been answered, whatever the answer.
C30_RequestClosesItsDriver ==
    \A i \in WithDriver :
        req.log[i].op = "create_graph_data" => req.log[i].driver \in req.closed

\* What the endpoint does: the driver is closed when the write succeeded,
\* and only then.
C30_ClosedOnSuccessOnly ==
    \A i \in WithDriver :
        req.log[i].op = "create_graph_data" =>
            (req.log[i].driver \in req.closed <=> req.log[i].status_code = 200)

\* A cancelled write issues no further batch and leaves the batches the
\* store committed in the store.
CancelStopsAndKeeps ==
    /\ Len(w.issued) <= w.committed + 1
    /\ \A k \in 1..Len(w.issued) : w.issued[k] = w.batches[k]
    /\ store = StoreAfter(w.committed)

\* C24: when the caller cancels a write in progress no further batch is
\* issued, the committed batches are not rolled back, and what the caller
\* gets reports the number of batches committed.
C24_CancelReportsCommitted ==
    w.pc = "cancelled" =>
        /\ CancelStopsAndKeeps
        /\ \E f \in DOMAIN w.error.details : w.error.details[f] = w.committed

\* What a cancelled write does keep.
C24_CancelKeepsCommitted ==
    w.pc = "cancelled" => CancelStopsAndKeeps

\* The first table of data_dico that has every column of props, 0 if none.
FirstQualifying(data_dico, props) ==
    LET qualifying == Qualifying(data_dico, props)
    IN  IF qualifying = {} THEN 0
        ELSE CHOOSE i \in qualifying : \A j \in qualifying : i <= j

\* Several tables and one rule whose source, target and relationship
\* columns all resolve to table k.
SameTableCase(k) ==
    /\ proj.op = "create_graph_api"
    /\ Len(proj.data_dico) > 1
    /\ Len(proj.graph_config_list) = 1
    /\ k \in DOMAIN proj.data_dico
    /\ \A part \in Parts :
        /\ proj.graph_config_list[1][part].properties # <<>>
        /\ FirstQualifying(proj.data_dico,
                           proj.graph_config_list[1][part].properties) = k

\* C25: when the three column lists of a rule resolve to the same table of
\* several, the projection is the one over that table alone: one edge per
\* row of it, with the same records.
C25_SameTableSkipsJoin ==
    proj.op = "create_graph_api" =>
        \A k \in DOMAIN proj.data_dico :
            SameTableCase(k) =>
                /\ ~proj.out.raised
                /\ Len(proj.out.value) = Len(proj.data_dico[k].rows)
                /\ proj.out = create_graph_api(proj.graph_config_list,
                                               <<proj.data_dico[k]>>)

\* Every session of the in-memory map mem has in files a readable record
\* with the same creation timestamp and tables.
CacheOfDisk(mem, files) ==
    \A session_id \in DOMAIN mem :
        /\ session_id \in DOMAIN files
        /\ pickle_readable(files[session_id])
        /\ pickle_load(files[session_id]).created_at = mem[session_id].created_at
        /\ pickle_load(files[session_id]).dataframes = mem[session_id].dataframes

\* C26: whatever calls one SessionManager has served, failed ones included,
\* every session of its in-memory map has a readable durable record with
\* the same creation timestamp and tables.
C26_MemoryIsCacheOfDisk == CacheOfDisk(sessions["m1"], cache_dir)

\* Every call but a create_session that raises keeps the in-memory map a
\* cache of the durable records.
C26_KeptButByFailedCreate ==
    [][(/\ CacheOfDisk(sessions["m1"], cache_dir)
        /\ ~(ret'.op = "create_session" /\ ret'.raised))
            => CacheOfDisk(sessions'["m1"], cache_dir')]_vars

\* Every session of manager m's in-memory map holds its tables, those it
\* was created with.
CachedWithTables(m) ==
    \A session_id \in DOMAIN sessions[m] :
        /\ "dataframes" \in DOMAIN sessions[m][session_id]
        /\ session_id \in DOMAIN live =>
              sessions[m][session_id].dataframes = live[session_id].dataframes

\* C28: get_session_info returns the session's metadata without a
\* 'dataframes' entry and leaves the cached session whole: whatever
\* get_session_info and list_sessions calls were served, the cache holds
\* the full tables and get_dataframes returns them.
C28_InfoLeavesTablesAlone ==
    /\ (ret.op = "get_session_info" /\ ret.found) =>
          /\ "dataframes" \notin DOMAIN ret.value
          /\ ret.id \in DOMAIN sessions[ret.m]
          /\ ret.value = session_info(sessions[ret.m][ret.id])
    /\ ret.op = "list_sessions" =>
          \A session_id \in DOMAIN ret.value :
              "dataframes" \notin DOMAIN ret.value[session_id]
    /\ CachedWithTables("m1")
    /\ (ret.op = "get_dataframes" /\ ret.found /\ ret.id \in DOMAIN live) =>
          ret.value = live[ret.id].dataframes

\* The metadata of a cached session of two tables was asked for, and the
\* cache still holds both tables.
C28_Witness ==
    /\ ret.op = "get_session_info"
    /\ ret.found
    /\ ret.cached
    /\ "dataframes" \notin DOMAIN ret.value
    /\ ret.value.session_id = ret.id
    /\ sessions[ret.m][ret.id].dataframes = <<staff, offices>>

\* C29: with several SessionManagers on one cache directory, once one of
\* them has deleted a session, get_session reports it absent on every one
\* of them until the session is created again.
C29_DeletedOnEveryWorker ==
    \A d \in deleted :
        (ret.op = "get_session" /\ ret.id = d[2]) =>
            ~ret.found /\ ret.value = None

\* What does hold: the deleted session is gone from the manager that deleted
\* it and from the cache directory, and that manager reports it absent.
C29_DeletedOnItsWorker ==
    \A d \in deleted :
        /\ d[2] \notin DOMAIN sessions[d[1]]
        /\ d[2] \notin DOMAIN cache_dir
        /\ (ret.op = "get_session" /\ ret.id = d[2] /\ ret.m = d[1]) =>
                ~ret.found

\* ------------------------------------------------- the ingestion endpoints

\* C11: the session id an upload is answered with is the MD5 digest of the
\* first file's raw content (of the serialized configuration for a database
\* load), so two requests get the same id exactly when that input is the
\* same, and a request replaces a stored session only of the same input.
C11_IdIsHashOfRawInput ==
    /\ \A i \in DOMAIN up.log :
            up.log[i].session_id = md5_hexdigest(up.log[i].raw)
    /\ \A i, j \in DOMAIN up.log :
            up.log[i].session_id = up.log[j].session_id
                <=> up.log[i].raw = up.log[j].raw
    /\ \A j \in DOMAIN up.log :
            up.log[j].replaced =>
                \E i \in 1..(j - 1) : up.log[i].raw = up.log[j].raw

\* What does hold: a database load is given the digest of its configuration,
\* and every file upload the digest of the empty content.
C11_IdOfDatabaseLoadAndOfUpload ==
    \A i \in DOMAIN up.log :
        up.log[i].session_id =
            IF up.log[i].kind = "database" THEN md5_hexdigest(up.log[i].raw)
            ELSE md5_hexdigest(<<>>)

=============================================================================
